---- MODULE Spec2Model ----
(***************************************************************************)
(* The request/response lifecycle and view state of the App component      *)
(* (src/src/App.tsx): the form record, the prediction, loading and error   *)
(* state hooks, the handlers that write them, and the two pure label       *)
(* mappings used by the result panel.                                      *)
(*                                                                         *)
(* A JavaScript value that may be null is a sequence of length at most     *)
(* one: Null is the empty sequence and Some(v) holds v.                    *)
(***************************************************************************)
EXTENDS Naturals, Sequences, FiniteSets, TLC

\* ------------------------------------------------------------------ bounds

\* How many of the eight fields (in FieldOrder) are given a second non-empty
\* sample input; every field always has the empty string and one sample.
VariedFields == 1

\* Cap on the number of outstanding promises the model represents.  The
\* button guard of HandleSubmit is what keeps the program at one.
MaxInFlight == 2

\* --------------------------------------------------------------- constants

Null == <<>>
Some(v) == <<v>>

FieldOrder ==
    <<"age", "weight", "height", "hr", "spo2", "temp", "qt_interval", "st_segment">>

Fields == {FieldOrder[i] : i \in 1..Len(FieldOrder)}

FirstSample == <<"54", "70", "170", "72", "98", "37", "400", "1">>
SecondSample == <<"61", "82", "181", "110", "91", "39", "470", "3">>

\* The strings a user types into the <input type="number"> named name.
InputValues(name) ==
    LET i == CHOOSE k \in 1..Len(FieldOrder) : FieldOrder[k] = name
    IN  {"", FirstSample[i]} \cup (IF i <= VariedFields THEN {SecondSample[i]} ELSE {})

\* useState initial value of formData, and the literal resetForm writes.
EmptyForm == [f \in Fields |-> ""]

ErrorMessage == "An error occurred during prediction. Please try again."

\* Diagnosis labels the service may answer with; "Unknown" stands for any
\* label neither switch names.
Labels == {"Good", "Heart Failure", "Coronary Artery Disease", "Arrhythmia", "Unknown"}

\* response.data for a well-formed answer, reduced to the label the view reads.
PredictionResult(label) == [prediction |-> label]

\* ------------------------------------------------------------- pure helpers

DefaultColor == "bg-yellow-100 text-yellow-700"
DefaultRecommendation == "Further evaluation needed. Consult a doctor."

getDiagnosisColor(diagnosis) ==
    CASE diagnosis = "Good" -> "bg-green-100 text-green-700"
      [] diagnosis = "Heart Failure" -> "bg-red-100 text-red-700"
      [] diagnosis = "Arrhythmia" -> "bg-blue-100 text-blue-700"
      [] OTHER -> DefaultColor

getRecommendationMessage(diagnosis) ==
    CASE diagnosis = "Good" ->
            [message |-> "No issues found. Maintain a healthy lifestyle.",
             color |-> "bg-green-100 text-green-700"]
      [] diagnosis = "Heart Failure" ->
            [message |-> "Urgent care needed. See a cardiologist now.",
             color |-> "bg-red-100 text-red-700"]
      [] diagnosis = "Coronary Artery Disease" ->
            [message |-> "Consult a cardiologist. Follow a heart-healthy plan.",
             color |-> "bg-orange-100 text-orange-700"]
      [] diagnosis = "Arrhythmia" ->
            [message |-> "See a cardiologist. Avoid caffeine and monitor symptoms.",
             color |-> "bg-blue-100 text-blue-700"]
      [] OTHER ->
            [message |-> DefaultRecommendation, color |-> DefaultColor]

\* ------------------------------------------------------------------- state

VARIABLES
    formData,       \* useState: field name -> raw input string
    prediction,     \* useState: Null or Some(PredictionResult)
    loading,        \* useState: BOOLEAN
    error,          \* useState: Null or Some(string)
    pending,        \* the axios.post promises not yet settled: their request bodies
    predictionFor,  \* history: Null or Some(body of the request prediction answers)
    resetInFlight,  \* history: resetForm ran since the last submit, while it was pending
    lastOutcome,    \* history: how the most recently settled request ended
    lastEvent       \* history: the handler or continuation that ran last

vars == <<formData, prediction, loading, error, pending, predictionFor,
          resetInFlight, lastOutcome, lastEvent>>

Event(op, name, value) == [op |-> op, name |-> name, value |-> value]

Init ==
    /\ formData = EmptyForm
    /\ prediction = Null
    /\ loading = FALSE
    /\ error = Null
    /\ pending = <<>>
    /\ predictionFor = Null
    /\ resetInFlight = FALSE
    /\ lastOutcome = "none"
    /\ lastEvent = Event("mount", "", "")

\* ----------------------------------------------------------------- actions

\* Faulty variant: setFormData({[name]: value}), the spread of prev forgotten.
handleChangeReplacing(name, value) ==
    /\ formData' = [EmptyForm EXCEPT ![name] = value]
    /\ lastEvent' = Event("setField", name, value)
    /\ UNCHANGED <<prediction, loading, error, pending, predictionFor, resetInFlight,
                   lastOutcome>>

\* Faulty variant: the request holds the form by reference, so an edit made
\* while it is outstanding shows in its body.
handleChangeSharedBody(name, value) ==
    /\ formData' = [formData EXCEPT ![name] = value]
    /\ pending' = [i \in DOMAIN pending |-> formData']
    /\ lastEvent' = Event("setField", name, value)
    /\ UNCHANGED <<prediction, loading, error, predictionFor, resetInFlight, lastOutcome>>

\* onChange of one input: setFormData(prev => ({...prev, [name]: value})).
handleChange(name, value) ==
    /\ formData' = [formData EXCEPT ![name] = value]
    /\ lastEvent' = Event("setField", name, value)
    /\ UNCHANGED <<prediction, loading, error, pending, predictionFor, resetInFlight,
                   lastOutcome>>

\* Faulty variant: the submit button lacks disabled={loading}.
CanSubmitWhileLoading ==
    \A f \in Fields : formData[f] # ""

\* The browser fires the form's submit event only when the submit button is
\* enabled (disabled={loading}) and every required input is filled.
CanSubmit ==
    /\ ~loading
    /\ \A f \in Fields : formData[f] # ""

\* Faulty variant: setError(null) left out.
handleSubmitKeepsError ==
    /\ CanSubmit
    /\ Len(pending) < MaxInFlight
    /\ loading' = TRUE
    /\ pending' = Append(pending, formData)
    /\ resetInFlight' = FALSE
    /\ lastEvent' = Event("submit", "", "")
    /\ UNCHANGED <<formData, prediction, predictionFor, lastOutcome, error>>

\* Variant: setPrediction(null) added beside setError(null).
handleSubmitClearsPrediction ==
    /\ CanSubmit
    /\ Len(pending) < MaxInFlight
    /\ loading' = TRUE
    /\ error' = Null
    /\ prediction' = Null
    /\ predictionFor' = Null
    /\ pending' = Append(pending, formData)
    /\ resetInFlight' = FALSE
    /\ lastEvent' = Event("submit", "", "")
    /\ UNCHANGED <<formData, lastOutcome>>

\* handleSubmit up to its await: setLoading(true), setError(null), axios.post(url, formData).
handleSubmit ==
    /\ CanSubmit
    /\ Len(pending) < MaxInFlight
    /\ loading' = TRUE
    /\ error' = Null
    /\ pending' = Append(pending, formData)
    /\ resetInFlight' = FALSE
    /\ lastEvent' = Event("submit", "", "")
    /\ UNCHANGED <<formData, prediction, predictionFor, lastOutcome>>

Remove(s, i) == SubSeq(s, 1, i - 1) \o SubSeq(s, i + 1, Len(s))

\* Variant: a staleness check drops the response of a request that a reset
\* has overtaken.
handleSubmitFulfilledIfCurrent(i, data) ==
    /\ prediction' = IF resetInFlight THEN prediction ELSE Some(data)
    /\ predictionFor' = IF resetInFlight THEN predictionFor ELSE Some(pending[i])
    /\ loading' = FALSE
    /\ pending' = Remove(pending, i)
    /\ lastOutcome' = "success"
    /\ lastEvent' = Event("success", "", "")
    /\ UNCHANGED <<formData, error, resetInFlight>>

\* The promise pending[i] fulfils with data: setPrediction(response.data), then
\* the finally block's setLoading(false).
handleSubmitFulfilled(i, data) ==
    /\ prediction' = Some(data)
    /\ predictionFor' = Some(pending[i])
    /\ loading' = FALSE
    /\ pending' = Remove(pending, i)
    /\ lastOutcome' = "success"
    /\ lastEvent' = Event("success", "", "")
    /\ UNCHANGED <<formData, error, resetInFlight>>

\* Faulty variant: the catch block also calls setPrediction(null).
handleSubmitRejectedClearsPrediction(i) ==
    /\ error' = Some(ErrorMessage)
    /\ prediction' = Null
    /\ predictionFor' = Null
    /\ loading' = FALSE
    /\ pending' = Remove(pending, i)
    /\ lastOutcome' = "failure"
    /\ lastEvent' = Event("failure", "", "")
    /\ UNCHANGED <<formData, resetInFlight>>

\* Faulty variant: setLoading(false) sits at the end of the try block, not in
\* a finally block, so a rejection skips it.
handleSubmitRejectedNoFinally(i) ==
    /\ error' = Some(ErrorMessage)
    /\ pending' = Remove(pending, i)
    /\ lastOutcome' = "failure"
    /\ lastEvent' = Event("failure", "", "")
    /\ UNCHANGED <<formData, prediction, predictionFor, resetInFlight, loading>>

\* The promise pending[i] rejects: the catch block's setError(...), then the
\* finally block's setLoading(false).
handleSubmitRejected(i) ==
    /\ error' = Some(ErrorMessage)
    /\ loading' = FALSE
    /\ pending' = Remove(pending, i)
    /\ lastOutcome' = "failure"
    /\ lastEvent' = Event("failure", "", "")
    /\ UNCHANGED <<formData, prediction, predictionFor, resetInFlight>>

\* Faulty variant: setError(null) left out of resetForm.
resetFormKeepsError ==
    /\ formData' = EmptyForm
    /\ prediction' = Null
    /\ predictionFor' = Null
    /\ resetInFlight' = (pending # <<>>)
    /\ lastEvent' = Event("reset", "", "")
    /\ UNCHANGED <<loading, pending, lastOutcome, error>>

\* onClick of the Reset button (type="button", never disabled).
resetForm ==
    /\ formData' = EmptyForm
    /\ prediction' = Null
    /\ predictionFor' = Null
    /\ error' = Null
    /\ resetInFlight' = (pending # <<>>)
    /\ lastEvent' = Event("reset", "", "")
    /\ UNCHANGED <<loading, pending, lastOutcome>>

SetField == \E name \in Fields : \E value \in InputValues(name) : handleChange(name, value)
Submit == handleSubmit
Success == \E i \in 1..Len(pending) : \E l \in Labels :
               handleSubmitFulfilled(i, PredictionResult(l))
Failure == \E i \in 1..Len(pending) : handleSubmitRejected(i)
Reset == resetForm

Next == SetField \/ Submit \/ Success \/ Failure \/ Reset

Spec == Init /\ [][Next]_vars

\* ------------------------------------------------------------ step helpers

InFlight == pending # <<>>
Completed == lastOutcome # "none"
AllFilled == \A f \in Fields : formData[f] # ""

\* A step of the named handler.  Every handler writes lastEvent, so a step
\* that changes the state and ends with lastEvent.op = op is that handler's.
Step(op) == vars' # vars /\ lastEvent'.op = op

\* ------------------------------------------------------------------ claims

\* C1, as stated: in every state with no request in flight and at least one
\* request completed, prediction and error are not both present.
C1_MutuallyExclusive ==
    (~InFlight /\ Completed) => ~(prediction # Null /\ error # Null)

\* C1, amended: in every state with no request in flight whose most recently
\* completed request succeeded, prediction and error are not both present;
\* both are present only after a failed request.
C1_ExclusiveAfterSuccess ==
    /\ (~InFlight /\ lastOutcome = "success") => ~(prediction # Null /\ error # Null)
    /\ (prediction # Null /\ error # Null) => (~InFlight /\ lastOutcome = "failure")

C1_Witness ==
    /\ ~InFlight
    /\ lastEvent.op = "success"
    /\ lastOutcome = "success"
    /\ prediction # Null
    /\ error = Null

C3_ResetEffect ==
    [][Step("reset") =>
          /\ \A f \in Fields : formData'[f] = ""
          /\ DOMAIN formData' = Fields
          /\ prediction' = Null
          /\ error' = Null
          /\ loading' = loading
          /\ pending' = pending]_vars

C3_Witness ==
    /\ lastEvent.op = "reset"
    /\ loading
    /\ InFlight
    /\ formData = EmptyForm
    /\ prediction = Null
    /\ error = Null
    /\ lastOutcome = "failure"

\* C4: loading is true exactly when a submitted request has not yet resolved.
C4_LoadingIffInFlight ==
    loading <=> InFlight

C4_Witness ==
    /\ loading
    /\ InFlight
    /\ lastEvent.op = "setField"
    /\ Completed

\* C5: at most one request is outstanding at any time.
C5_AtMostOneInFlight ==
    Len(pending) <= 1

C5_Witness ==
    /\ Len(pending) = 1
    /\ AllFilled
    /\ lastEvent.op = "setField"
    /\ formData # pending[1]

\* C6: a request that a reset has overtaken still writes its outcome when it
\* resolves: on success prediction becomes the response to the body sent
\* before the reset, on failure error becomes the fixed message, and the
\* form keeps what it held.
C6_StaleOutcomeWritten ==
    [][(resetInFlight /\ InFlight) =>
          /\ Step("success") =>
                /\ prediction' # Null
                /\ \E i \in DOMAIN pending : predictionFor' = Some(pending[i])
                /\ formData' = formData
          /\ Step("failure") =>
                /\ error' = Some(ErrorMessage)
                /\ formData' = formData]_vars

C6_Witness ==
    /\ resetInFlight
    /\ ~InFlight
    /\ lastEvent.op = "success"
    /\ formData = EmptyForm
    /\ prediction # Null
    /\ predictionFor # Null
    /\ predictionFor # Some(formData)

\* The failure half of C6's reachable state.
C6_WitnessFailure ==
    /\ resetInFlight
    /\ ~InFlight
    /\ lastEvent.op = "failure"
    /\ formData = EmptyForm
    /\ error # Null

\* C7, as stated: in every state where a request is in flight, both
\* prediction and error are absent.
C7_BothClearedInFlight ==
    InFlight => (prediction = Null /\ error = Null)

\* C7, amended: a new submission clears error and leaves prediction as it
\* was: in every state where a request is in flight error is absent, and a
\* submit step does not change prediction.
C7_ErrorClearedInFlight ==
    /\ [](InFlight => error = Null)
    /\ [][Step("submit") => (error' = Null /\ prediction' = prediction)]_vars

C7_Witness ==
    /\ InFlight
    /\ lastEvent.op = "submit"
    /\ lastOutcome = "failure"
    /\ prediction # Null
    /\ error = Null

\* C8: a setField(name, value) step makes that field equal value, keeps each
\* of the other seven fields, and leaves prediction, error, loading and the
\* outstanding request unchanged.
C8_SetFieldFrame ==
    [][Step("setField") =>
          LET name == lastEvent'.name
              value == lastEvent'.value
          IN  /\ name \in Fields
              /\ value \in InputValues(name)
              /\ DOMAIN formData' = Fields
              /\ formData'[name] = value
              /\ \A other \in Fields \ {name} : formData'[other] = formData[other]
              /\ prediction' = prediction
              /\ error' = error
              /\ loading' = loading
              /\ pending' = pending]_vars

C8_Witness ==
    /\ lastEvent.op = "setField"
    /\ lastEvent.value # ""
    /\ formData[lastEvent.name] = lastEvent.value
    /\ \E other \in Fields \ {lastEvent.name} : formData[other] # ""
    /\ loading
    /\ prediction # Null

\* C9, as stated: for the label on display, getDiagnosisColor gives the
\* default category exactly when getRecommendationMessage gives the default
\* message with the default category, and the two categories are equal.
C9_SameLabelSet ==
    prediction # Null =>
        LET label == prediction[1].prediction
            rec == getRecommendationMessage(label)
        IN  /\ (getDiagnosisColor(label) = DefaultColor) <=>
                   (rec = [message |-> DefaultRecommendation, color |-> DefaultColor])
            /\ rec.color = getDiagnosisColor(label)

\* C10: a submit step issues exactly one request, whose body is formData as
\* it is at that step; no setField or reset step changes an outstanding
\* request; and a success step stores the response to the body sent at submit.
C10_BodyIsSubmitSnapshot ==
    [][/\ Step("submit") => pending' = Append(pending, formData)
       /\ (Step("setField") \/ Step("reset")) => pending' = pending
       /\ Step("success") =>
             \E i \in DOMAIN pending :
                 /\ pending' = Remove(pending, i)
                 /\ predictionFor' = Some(pending[i])
                 /\ \A f \in Fields : pending[i][f] # ""]_vars

C10_Witness ==
    /\ lastEvent.op = "success"
    /\ predictionFor # Null
    /\ formData # EmptyForm
    /\ predictionFor # Some(formData)
    /\ ~resetInFlight

====
